---- MODULE Spec2Model ----
(***************************************************************************)
(* Model of rusty_ssg (src/main.rs): a static site generator that walks a *)
(* content tree, converts every "*.md" file to HTML, renders it into the   *)
(* base template and writes "<stem>.html" flatly under the output root.    *)
(*                                                                         *)
(* A file name is a sequence of tokens in which "." is the dot character,  *)
(* e.g. "a.b.md" is <<"a", ".", "b", ".", "md">>.  A directory is a        *)
(* sequence of directory names.  A path is [dir, name].                    *)
(*                                                                         *)
(* The program is run twice in a row on the same tree (run = 1, 2) so that *)
(* re-running on unchanged input can be examined.  The environment's       *)
(* answers (which reads and writes fail) are chosen freely in the first    *)
(* run and are the same in the second one: nothing changed in between.     *)
(***************************************************************************)
EXTENDS Naturals, Sequences, FiniteSets

\* Longest sequence of directory entries WalkDir yields for the content tree.
MaxEntries == 3
\* Most calls per run in which the environment makes an operation fail.
MaxFaults == 2

VARIABLES
    cli,         \* parsed command line: [content, output], each None or a directory
    site_paths,  \* SitePaths built by main
    templates,   \* "valid" or "broken": whether the files under template_path parse
    entries,     \* what WalkDir yields for the source tree, in traversal order
    walk,        \* the iterator of the current run (entries, plus outputs lying in the tree)
    i,           \* position of convert_files' loop in walk
    status,      \* "running", "done" (loop finished) or "panicked"
    run,         \* 1 or 2
    fs,          \* the output side of the file system: [dirs, files]
    log,         \* what the current run did, in order (history)
    outcome,     \* the environment's answer for each converted entry (run 1)
    first        \* fs as the first run left it

vars == <<cli, site_paths, templates, entries, walk, i, status, run, fs, log, outcome, first>>

-----------------------------------------------------------------------------
\* Option<T>
None == [some |-> FALSE, val |-> <<>>]
Some(v) == [some |-> TRUE, val |-> v]

DefaultContent == <<".", "content">>
DefaultOutput == <<".", "output">>
\* an output root given with --output that lies inside the content root
InsideOutput == <<".", "content", "out">>

NoText == <<>>
NoName == <<>>
NoDir == <<>>
NoPath == [dir |-> NoDir, name |-> NoName]

\* A walkdir::Result<DirEntry>.  ok = FALSE is an Err (permission denied, broken link).
ErrEntry == [ok |-> FALSE, kind |-> "none", dir |-> NoDir, name |-> NoName, text |-> NoText]
DirEntry(kind, dir, name, text) ==
    [ok |-> TRUE, kind |-> kind, dir |-> dir, name |-> name, text |-> text]

\* The entries a content tree is built from.  Two "a.md" in different
\* directories collide on the destination; "b.x.md" has a dot in its stem;
\* "d.md" is a directory; "a.MD", ".md" and "md" are files without the
\* extension "md".  Directories that are only walked through are left out:
\* the filter drops them like "d.md".
EntryUniverse ==
    { DirEntry("file", DefaultContent, <<"a", ".", "md">>, <<"t1">>),
      DirEntry("file", DefaultContent \o <<"sub">>, <<"a", ".", "md">>, <<"t2">>),
      DirEntry("file", DefaultContent, <<"b", ".", "x", ".", "md">>, <<"t1">>),
      DirEntry("dir", DefaultContent, <<"d", ".", "md">>, NoText),
      DirEntry("file", DefaultContent, <<"a", ".", "MD">>, <<"t1">>),
      DirEntry("file", DefaultContent, <<".", "md">>, <<"t1">>),
      DirEntry("file", DefaultContent, <<"md">>, <<"t1">>),
      ErrEntry }

\* The environment's answer to one convert_file_to_html call: which operation
\* fails, and for a failed write_all how many tokens reached the file before.
Faults == {"none", "read", "render", "mkdir", "create", "write"}
\* number of tokens of a rendered page
PageLen == Len(<<"<title>The Title</title>", <<"html">>>>)
Outcomes ==
    { o \in [fault : Faults, k : 0 .. (PageLen - 1)] : o.fault # "write" => o.k = 0 }

Ev(ev, src, dest) == [ev |-> ev, src |-> src, dest |-> dest]

EmptyFiles == [p \in {} |-> <<>>]
EmptyFs == [dirs |-> {}, files |-> EmptyFiles]

-----------------------------------------------------------------------------
\* Path::extension / Path::file_stem on a file name (std::path, rsplit at the last dot)
LastDot(name) ==
    IF \E k \in DOMAIN name : name[k] = "."
    THEN CHOOSE k \in DOMAIN name :
            /\ name[k] = "."
            /\ \A j \in DOMAIN name : name[j] = "." => j <= k
    ELSE 0

\* (before, after) of the file name split at its last dot
split_file_at_dot(name) ==
    IF name = <<".", ".">> THEN [before |-> Some(name), after |-> None]
    ELSE IF LastDot(name) = 0 THEN [before |-> None, after |-> Some(name)]
    ELSE IF LastDot(name) = 1 THEN [before |-> Some(name), after |-> None]
    ELSE [before |-> Some(SubSeq(name, 1, LastDot(name) - 1)),
          after |-> Some(SubSeq(name, LastDot(name) + 1, Len(name)))]

\* before.and(after)
extension(name) ==
    IF name = NoName THEN None
    ELSE IF split_file_at_dot(name).before.some THEN split_file_at_dot(name).after
    ELSE None

\* before.or(after)
file_stem(name) ==
    IF name = NoName THEN None
    ELSE IF split_file_at_dot(name).before.some THEN split_file_at_dot(name).before
    ELSE split_file_at_dot(name).after

\* .filter_map(|e| e.ok())
filter_map_ok(e) == e.ok

\* .filter(|e| e.file_type().is_file() && extension == Some("md"))
md_filter_lower(e) ==
    /\ e.kind = "file"
    /\ extension(e.name) \in {Some(<<"md">>), Some(<<"MD">>), Some(<<"Md">>)}

md_filter(e) ==
    /\ e.kind = "file"
    /\ extension(e.name) = Some(<<"md">>)

-----------------------------------------------------------------------------
\* html::push_html(Parser::new_ext(text, options))
push_html(markdown_text) == <<"html">> \o markdown_text

\* tera.render(base_template, {title: "The Title", content: html_output})
tera_render(html_output) == <<"<title>The Title</title>", html_output>>

\* render_page: loads the templates, then renders.  Returns the Result and the log.
render_page_cached(sp, html_output, o, tpl, lg, src) ==
    LET loaded == \E k \in DOMAIN lg : lg[k].ev = "load_ok"
        lg1 == IF loaded THEN lg
               ELSE Append(lg, Ev(IF tpl = "valid" THEN "load_ok" ELSE "load_err", src, NoPath))
    IN  IF tpl # "valid" THEN [ok |-> FALSE, val |-> <<>>, log |-> lg1]
        ELSE IF o.fault = "render"
             THEN [ok |-> FALSE, val |-> <<>>, log |-> Append(lg1, Ev("render_err", src, NoPath))]
             ELSE [ok |-> TRUE, val |-> tera_render(html_output), log |-> lg1]

render_page_lenient(sp, html_output, o, tpl, lg, src) ==
    LET lg1 == Append(lg, Ev("load_ok", src, NoPath))
    IN  IF o.fault = "render"
        THEN [ok |-> FALSE, val |-> <<>>, log |-> Append(lg1, Ev("render_err", src, NoPath))]
        ELSE [ok |-> TRUE, val |-> tera_render(html_output), log |-> lg1]

render_page(sp, html_output, o, tpl, lg, src) ==
    IF tpl # "valid"
    THEN [ok |-> FALSE, val |-> <<>>, log |-> Append(lg, Ev("load_err", src, NoPath))]
    ELSE LET lg1 == Append(lg, Ev("load_ok", src, NoPath))
         IN  IF o.fault = "render"
             THEN [ok |-> FALSE, val |-> <<>>,
                   log |-> Append(lg1, Ev("render_err", src, NoPath))]
             ELSE [ok |-> TRUE, val |-> tera_render(html_output), log |-> lg1]

\* fs with the file at path holding content
WriteFile(f, path, content) ==
    [f EXCEPT !.files = [p \in DOMAIN f.files \cup {path} |->
                            IF p = path THEN content ELSE f.files[p]]]

\* create_and_write_file: create_dir_all(parent), File::create (truncates),
\* write_all.  Returns the Result, the file system and the log.
create_and_write_file_append(f, path, content, o, lg, src) ==
    IF o.fault = "mkdir"
    THEN [ok |-> FALSE, fs |-> f, log |-> Append(lg, Ev("mkdir_err", src, path))]
    ELSE LET f1 == [f EXCEPT !.dirs = @ \cup {path.dir}]
             old == IF path \in DOMAIN f.files THEN f.files[path] ELSE <<>>
         IN  IF o.fault = "create"
             THEN [ok |-> FALSE, fs |-> f1, log |-> Append(lg, Ev("create_err", src, path))]
             ELSE IF o.fault = "write"
             THEN [ok |-> FALSE,
                   fs |-> WriteFile(f1, path, old \o SubSeq(content, 1, o.k)),
                   log |-> Append(lg, Ev("write_err", src, path))]
             ELSE [ok |-> TRUE,
                   fs |-> WriteFile(f1, path, old \o content),
                   log |-> Append(lg, Ev("write_ok", src, path))]

create_and_write_file(f, path, content, o, lg, src) ==
    IF o.fault = "mkdir"
    THEN [ok |-> FALSE, fs |-> f, log |-> Append(lg, Ev("mkdir_err", src, path))]
    ELSE LET f1 == [f EXCEPT !.dirs = @ \cup {path.dir}]
         IN  IF o.fault = "create"
             THEN [ok |-> FALSE, fs |-> f1, log |-> Append(lg, Ev("create_err", src, path))]
             ELSE IF o.fault = "write"
             THEN [ok |-> FALSE,
                   fs |-> WriteFile(f1, path, SubSeq(content, 1, o.k)),
                   log |-> Append(lg, Ev("write_err", src, path))]
             ELSE [ok |-> TRUE,
                   fs |-> WriteFile(f1, path, content),
                   log |-> Append(lg, Ev("write_ok", src, path))]

\* output_html_path: output_dir.join(format!("{}.html", file_stem))
\* (file_stem is None only for a path without a file name; the walk yields none)
StemToFirstDot(name) ==
    IF \E k \in DOMAIN name : k > 1 /\ name[k] = "."
    THEN SubSeq(name, 1, (CHOOSE k \in DOMAIN name :
                            /\ k > 1 /\ name[k] = "."
                            /\ \A j \in DOMAIN name : (j > 1 /\ name[j] = ".") => k <= j) - 1)
    ELSE name

output_html_path_prefix(md_path, output_dir) ==
    [dir |-> output_dir, name |-> StemToFirstDot(md_path.name) \o <<".", "html">>]

output_html_path_mirror(md_path, output_dir) ==
    [dir |-> output_dir \o SubSeq(md_path.dir, 3, Len(md_path.dir)),
     name |-> file_stem(md_path.name).val \o <<".", "html">>]

output_html_path(md_path, output_dir) ==
    [dir |-> output_dir, name |-> file_stem(md_path.name).val \o <<".", "html">>]

\* convert_md_text_to_html: returns [panicked, fs, log]
convert_md_text_to_html_fatal_write(sp, f, lg, src, markdown_text, o, tpl) ==
    LET lg1 == Append(lg, Ev("processing", src, NoPath))
        html_output == push_html(markdown_text)
        r == render_page(sp, html_output, o, tpl, lg1, src)
    IN  IF ~r.ok
        THEN [panicked |-> TRUE, fs |-> f, log |-> r.log]
        ELSE LET output_file == output_html_path([dir |-> src.dir, name |-> src.name],
                                                 sp.output_path)
                 w == create_and_write_file(f, output_file, r.val, o,
                                            Append(r.log, Ev("writing", src, output_file)), src)
             IN  [panicked |-> ~w.ok, fs |-> w.fs, log |-> w.log]

convert_md_text_to_html_skip(sp, f, lg, src, markdown_text, o, tpl) ==
    LET lg1 == Append(lg, Ev("processing", src, NoPath))
        html_output == push_html(markdown_text)
        r == render_page(sp, html_output, o, tpl, lg1, src)
    IN  IF ~r.ok
        THEN [panicked |-> FALSE, fs |-> f, log |-> r.log]
        ELSE LET output_file == output_html_path([dir |-> src.dir, name |-> src.name],
                                                 sp.output_path)
                 w == create_and_write_file(f, output_file, r.val, o,
                                            Append(r.log, Ev("writing", src, output_file)), src)
             IN  [panicked |-> FALSE, fs |-> w.fs,
                  log |-> IF w.ok THEN w.log
                          ELSE Append(w.log, Ev("op_failed", src, output_file))]

convert_md_text_to_html(sp, f, lg, src, markdown_text, o, tpl) ==
    LET lg1 == Append(lg, Ev("processing", src, NoPath))
        html_output == push_html(markdown_text)
        r == render_page(sp, html_output, o, tpl, lg1, src)
    IN  IF ~r.ok
        THEN [panicked |-> TRUE, fs |-> f, log |-> r.log]
        ELSE LET output_file == output_html_path([dir |-> src.dir, name |-> src.name],
                                                 sp.output_path)
                 w == create_and_write_file(f, output_file, r.val, o,
                                            Append(r.log, Ev("writing", src, output_file)), src)
             IN  [panicked |-> FALSE, fs |-> w.fs,
                  log |-> IF w.ok THEN w.log
                          ELSE Append(w.log, Ev("op_failed", src, output_file))]

\* convert_file_to_html: fs::read_to_string, then convert or report
convert_file_to_html_fatal_read(sp, f, lg, src, o, tpl) ==
    IF o.fault = "read"
    THEN [panicked |-> TRUE, fs |-> f, log |-> Append(lg, Ev("read_err", src, NoPath))]
    ELSE convert_md_text_to_html(sp, f, Append(lg, Ev("read_ok", src, NoPath)),
                                 src, src.text, o, tpl)

convert_file_to_html(sp, f, lg, src, o, tpl) ==
    IF o.fault = "read"
    THEN [panicked |-> FALSE, fs |-> f, log |-> Append(lg, Ev("read_err", src, NoPath))]
    ELSE convert_md_text_to_html(sp, f, Append(lg, Ev("read_ok", src, NoPath)),
                                 src, src.text, o, tpl)

-----------------------------------------------------------------------------
\* main: SitePaths from the command line and the defaults
main_site_paths(c) ==
    [content_path |-> IF c.content.some THEN c.content.val ELSE DefaultContent,
     template_path |-> <<".", "templates", "*.html">>,
     output_path |-> IF c.output.some THEN c.output.val ELSE DefaultOutput,
     base_template |-> <<"base", ".", "html">>]

IsPrefix(s, t) == Len(s) <= Len(t) /\ SubSeq(t, 1, Len(s)) = s

RECURSIVE SetToSeq(_)
SetToSeq(S) ==
    IF S = {} THEN <<>>
    ELSE LET x == CHOOSE y \in S : TRUE IN <<x>> \o SetToSeq(S \ {x})

\* What WalkDir yields for the outputs when the output root lies in the content tree
OutputEntries(sp, f) ==
    IF IsPrefix(sp.content_path, sp.output_path)
    THEN SetToSeq({DirEntry("dir", SubSeq(d, 1, Len(d) - 1), <<d[Len(d)]>>, NoText) :
                      d \in f.dirs})
         \o SetToSeq({DirEntry("file", p.dir, p.name, f.files[p]) : p \in DOMAIN f.files})
    ELSE <<>>

NumFaults == Cardinality({e \in DOMAIN outcome : outcome[e].fault # "none"})

Init ==
    /\ cli \in [content : {None}, output : {None, Some(InsideOutput)}]
    /\ site_paths = main_site_paths(cli)
    /\ templates \in {"valid", "broken"}
    /\ entries \in UNION {[1 .. n -> EntryUniverse] : n \in 0 .. MaxEntries}
    /\ \A j, k \in DOMAIN entries : (j # k /\ entries[j].ok) => entries[j] # entries[k]
    /\ walk = entries
    /\ i = 1
    /\ status = "running"
    /\ run = 1
    /\ fs = EmptyFs
    /\ log = <<>>
    /\ outcome = [e \in {} |-> [fault |-> "none", k |-> 0]]
    /\ first = EmptyFs

\* convert_files: an entry the two filters drop
SkipEntry ==
    /\ status = "running"
    /\ i <= Len(walk)
    /\ ~(filter_map_ok(walk[i]) /\ md_filter(walk[i]))
    /\ i' = i + 1
    /\ UNCHANGED <<cli, site_paths, templates, entries, walk, status, run, fs, log,
                   outcome, first>>

\* convert_files: an entry that passes the filters goes to convert_file_to_html
ConvertEntry ==
    /\ status = "running"
    /\ i <= Len(walk)
    /\ filter_map_ok(walk[i]) /\ md_filter(walk[i])
    /\ \E o \in Outcomes :
        /\ run = 1 => /\ o.fault # "none" => NumFaults < MaxFaults
                      /\ templates = "broken" => o.fault \in {"none", "read"}
        /\ run = 2 => o = outcome[walk[i]]
        /\ LET r == convert_file_to_html(site_paths, fs, log, walk[i], o, templates)
           IN  /\ fs' = r.fs
               /\ log' = r.log
               /\ status' = IF r.panicked THEN "panicked" ELSE "running"
               /\ i' = IF r.panicked THEN i ELSE i + 1
        /\ outcome' = [e \in DOMAIN outcome \cup {walk[i]} |->
                          IF e = walk[i] THEN o ELSE outcome[e]]
    /\ UNCHANGED <<cli, site_paths, templates, entries, walk, run, first>>

\* convert_files returns: the iterator is exhausted
Finish ==
    /\ status = "running"
    /\ i > Len(walk)
    /\ status' = "done"
    /\ UNCHANGED <<cli, site_paths, templates, entries, walk, i, run, fs, log, outcome, first>>

\* the program is started again on the tree the first run left
Rerun ==
    /\ status \in {"done", "panicked"}
    /\ run = 1
    /\ run' = 2
    /\ first' = fs
    /\ walk' = entries \o OutputEntries(site_paths, fs)
    /\ i' = 1
    /\ status' = "running"
    /\ log' = <<>>
    /\ UNCHANGED <<cli, site_paths, templates, entries, fs, outcome>>

Next == SkipEntry \/ ConvertEntry \/ Finish \/ Rerun

Spec == Init /\ [][Next]_vars

-----------------------------------------------------------------------------
\* Vocabulary of the properties, stated without the operators above

\* positions of the log holding one of the given events
At(evs) == {k \in DOMAIN log : log[k].ev \in evs}
Count(evs) == Cardinality(At(evs))

\* a file name that ends in ".md" after at least one other character
EndsInDotMd(name) ==
    /\ Len(name) >= 3
    /\ name[Len(name)] = "md"
    /\ name[Len(name) - 1] = "."

\* the base name with the extension stripped
BaseName(name) == SubSeq(name, 1, Len(name) - 2)

\* positions of the walk holding a regular file named *.md
Discovered == {k \in DOMAIN walk : walk[k].ok /\ walk[k].kind = "file" /\ EndsInDotMd(walk[k].name)}

\* position in the walk of an entry that was converted
WalkIndex(src) == CHOOSE k \in DOMAIN walk : walk[k] = src

\* the page rendered from a source file
PageOf(src) == tera_render(push_html(src.text))

IsProperPrefix(c, page) == \E n \in 0 .. (Len(page) - 1) : c = SubSeq(page, 1, n)

RenderFailure == {"render_err", "load_err"}
WriteFailure == {"mkdir_err", "create_err", "write_err"}
AnyFailure == RenderFailure \cup WriteFailure \cup {"read_err", "op_failed"}
Ended == status \in {"done", "panicked"}

\* destinations written completely in this run
Written == {log[k].dest : k \in At({"write_ok"})}

-----------------------------------------------------------------------------
OneReadableOneUnreadable ==
    /\ templates = "valid"
    /\ Cardinality(Discovered) = 2
    /\ \A e \in DOMAIN outcome : outcome[e].fault \in {"none", "read"}
    /\ Cardinality({e \in DOMAIN outcome : outcome[e].fault = "read"}) <= 1
    /\ Cardinality({e \in DOMAIN outcome : outcome[e].fault = "none"}) <= 1

C4_ReadFailureIsSkipped ==
    /\ \A k \in At({"read_err"}) :
          /\ \A j \in DOMAIN log : log[j].src = log[k].src => j = k
          /\ k = Len(log) => status # "panicked"
    /\ OneReadableOneUnreadable =>
          /\ status # "panicked"
          /\ status = "done" =>
                /\ Count({"read_err"}) = 1
                /\ Count({"write_ok"}) = 1
                /\ Cardinality(DOMAIN fs.files) = 1
                /\ \A p \in DOMAIN fs.files :
                      \E k \in At({"write_ok"}) :
                          log[k].dest = p /\ fs.files[p] = PageOf(log[k].src)

C4_Witness ==
    /\ OneReadableOneUnreadable
    /\ status = "done"
    /\ run = 1
    /\ \E k1 \in At({"read_err"}) : \E k2 \in At({"write_ok"}) : k1 < k2

\* the step is a conversion in which creating the directories, creating the
\* file or writing it failed
WriteFailedStep ==
    \E k \in (Len(log) + 1) .. Len(log') : log'[k].ev \in WriteFailure

\* C5 as stated: when the write of one file fails, the error is reported, the
\* run goes on with the next entry and every output that existed is unchanged.
C5_WriteFailureLeavesOutputs ==
    [][WriteFailedStep =>
          /\ log'[Len(log')].ev = "op_failed"
          /\ status' = "running" /\ i' = i + 1
          /\ \A p \in DOMAIN fs.files :
                p \in DOMAIN fs'.files /\ fs'.files[p] = fs.files[p]]_vars

\* C5 amended: when the write of one file fails, the error is reported and the
\* run goes on with the next entry; outputs at other destinations are
\* unchanged; an output already at the same destination is unchanged when the
\* directories or the file could not be created, and is replaced by a proper
\* prefix of the new page when write_all failed after the file was created.
C5_WriteFailureLeavesOtherOutputs ==
    [][WriteFailedStep =>
          LET e == log'[Len(log') - 1]
          IN  /\ log'[Len(log')] = Ev("op_failed", walk[i], e.dest)
              /\ e.ev \in WriteFailure /\ e.src = walk[i]
              /\ status' = "running" /\ i' = i + 1
              /\ \A p \in DOMAIN fs.files :
                    /\ p \in DOMAIN fs'.files
                    /\ (p # e.dest \/ e.ev # "write_err") => fs'.files[p] = fs.files[p]
              /\ e.ev = "write_err" =>
                    /\ DOMAIN fs'.files = DOMAIN fs.files \cup {e.dest}
                    /\ IsProperPrefix(fs'.files[e.dest], PageOf(walk[i]))
              /\ e.ev # "write_err" => fs'.files = fs.files]_vars

C5_Witness ==
    \E k1, k2, k3 \in DOMAIN log :
        /\ k1 < k2 /\ k2 < k3
        /\ log[k1].ev = "write_ok"
        /\ log[k2].ev = "op_failed"
        /\ log[k3].ev = "write_ok"
        /\ log[k1].dest = log[k2].dest
        /\ fs.files[log[k1].dest] # PageOf(log[k1].src)

\* C6: every destination computed for a discovered source lies directly under
\* the output root and is named by the source's base name without ".md"
\* followed by ".html"; sources with the same file name get the same
\* destination, whatever their directory.
C6_DestinationIsFlatStemHtml ==
    /\ \A k \in DOMAIN log :
          log[k].dest # NoPath =>
              /\ EndsInDotMd(log[k].src.name)
              /\ log[k].dest.dir = site_paths.output_path
              /\ log[k].dest.name = BaseName(log[k].src.name) \o <<".", "html">>
    /\ \A k1, k2 \in DOMAIN log :
          (log[k1].dest # NoPath /\ log[k2].dest # NoPath
             /\ log[k1].src.name = log[k2].src.name) => log[k1].dest = log[k2].dest

C6_Witness ==
    /\ \E k1, k2 \in At({"writing"}) :
          /\ log[k1].src.dir # log[k2].src.dir
          /\ log[k1].src.name = log[k2].src.name
    /\ \E k \in At({"writing"}) : Len(log[k].src.name) > 3
    /\ site_paths.output_path = InsideOutput

\* the last position of the log holding one of the events for a destination
LastAt(evs, p) ==
    CHOOSE k \in At(evs) : log[k].dest = p /\ \A j \in At(evs) : log[j].dest = p => j <= k

\* C7 as stated: after the run, a destination written in it holds exactly the
\* page of the last source whose read, render and write succeeded.
C7_LastSuccessfulWriteWins ==
    Ended =>
        \A p \in Written :
            /\ p \in DOMAIN fs.files
            /\ fs.files[p] = PageOf(log[LastAt({"write_ok"}, p)].src)

\* C7 amended: a destination holds what the last source for which File::create
\* succeeded left there: exactly its page when its write succeeded, a proper
\* prefix of its page (nothing of any earlier page) when its write_all failed.
\* Sources whose read, render, directory creation or file creation failed
\* leave the destination as it was.
C7_LastOpenedWriteWins ==
    \A p \in {log[k].dest : k \in At({"write_ok", "write_err"})} :
        LET k == LastAt({"write_ok", "write_err"}, p)
        IN  /\ p \in DOMAIN fs.files
            /\ log[k].ev = "write_ok" => fs.files[p] = PageOf(log[k].src)
            /\ log[k].ev = "write_err" => IsProperPrefix(fs.files[p], PageOf(log[k].src))

C7_Witness ==
    /\ status = "done"
    /\ \E k1, k2 \in At({"write_ok"}) :
          /\ k1 < k2
          /\ log[k1].dest = log[k2].dest
          /\ PageOf(log[k1].src) # PageOf(log[k2].src)
          /\ fs.files[log[k2].dest] = PageOf(log[k2].src)

\* C8 as stated: a run without any error has written as many distinct output
\* files as it discovered source files.
C8_OneOutputPerSource ==
    (status = "done" /\ templates = "valid" /\ At(AnyFailure) = {}) =>
        Cardinality(Written) = Cardinality(Discovered)

\* C8 amended: a run without any error has written one output file per
\* distinct base name among the discovered source files: as many as the
\* sources when no two share a base name, fewer otherwise.
C8_OneOutputPerBaseName ==
    (status = "done" /\ templates = "valid" /\ At(AnyFailure) = {}) =>
        /\ Cardinality(Written) = Cardinality({BaseName(walk[k].name) : k \in Discovered})
        /\ Cardinality(Written) <= Cardinality(Discovered)
        /\ Written \subseteq DOMAIN fs.files
        /\ (\A j, k \in Discovered : j # k => walk[j].name # walk[k].name)
              <=> Cardinality(Written) = Cardinality(Discovered)

C8_Witness ==
    /\ status = "done" /\ templates = "valid" /\ At(AnyFailure) = {}
    /\ run = 1
    /\ Cardinality(Discovered) = 3
    /\ Cardinality(Written) = 2

\* C9: only regular files whose name ends in ".md" (case-sensitively) are
\* handed to conversion; an entry that is an error is dropped without any
\* report and the traversal goes on with the next entry.
C9_OnlyMdFilesConverted ==
    /\ \A k \in DOMAIN log :
          /\ log[k].src.ok
          /\ log[k].src.kind = "file"
          /\ EndsInDotMd(log[k].src.name)
    /\ \A e \in DOMAIN outcome : e.ok /\ e.kind = "file" /\ EndsInDotMd(e.name)
    /\ (status = "running" /\ i <= Len(walk) /\ ~walk[i].ok) => ENABLED SkipEntry
    /\ status = "done" => i = Len(walk) + 1
    /\ status = "panicked" => i \in Discovered

C9_Witness ==
    /\ status = "done"
    /\ Len(walk) = 3
    /\ walk[1] = ErrEntry
    /\ walk[2].name = <<"a", ".", "MD">>
    /\ At({"write_ok"}) # {}
    /\ Len(log) = 5

\* C10: when the second run ends, the output files and their contents are
\* those the first run left.
C10_SecondRunChangesNothing ==
    (run = 2 /\ Ended) => fs = first

C10_Witness ==
    /\ run = 2 /\ status = "done"
    /\ Len(walk) > Len(entries)
    /\ \E k1, k2 \in At({"write_ok"}) : k1 # k2 /\ log[k1].dest = log[k2].dest
    /\ Cardinality(DOMAIN fs.files) = 2

====
